---------------------------- MODULE Spec2Model ----------------------------
(***************************************************************************)
(* The DataCleaner of data_cleaning.py: one pandas DataFrame (self.df),    *)
(* an append-only report (self.cleaning_report) and the chained cleaning   *)
(* operations, each of which mutates the frame and returns the cleaner.    *)
(*                                                                         *)
(* A cell's string is a tuple of one-character strings, so that strip,     *)
(* title and re.sub act on characters.  A cell is a record tagged by k:    *)
(*   [k |-> "null"]            NaN / None / NaT                            *)
(*   [k |-> "num",  x2 |-> i]  the number i/2 (medians of integers are     *)
(*                             half-integers; x2 keeps them exact)         *)
(*   [k |-> "str",  s |-> t]   the Python str t                            *)
(*   [k |-> "date", d |-> <<y, m, d>>]  a Timestamp                        *)
(***************************************************************************)
EXTENDS Integers, Sequences, FiniteSets, TLC

VARIABLES df, cleaning_report, raised, calls, before

vars == <<df, cleaning_report, raised, calls, before>>

(***************************************************************************)
(* Bounds of the model.                                                    *)
(***************************************************************************)
MaxRows == 3

MaxCalls == 2

(***************************************************************************)
(* Characters and Python's str methods.                                    *)
(***************************************************************************)
Uppers == <<"A","B","C","D","E","F","G","H","I","J","K","L","M",
            "N","O","P","Q","R","S","T","U","V","W","X","Y","Z">>

Lowers == <<"a","b","c","d","e","f","g","h","i","j","k","l","m",
            "n","o","p","q","r","s","t","u","v","w","x","y","z">>

Digits == <<"0","1","2","3","4","5","6","7","8","9">>

\* The characters of the model in code point order.
CodePoints == <<"\t", "\n", " ", "-">> \o Digits \o Uppers \o <<"_">> \o Lowers

Whitespace == {"\t", "\n", " "}

Pos(c, seq) == CHOOSE i \in 1..Len(seq) : seq[i] = c

InSeq(c, seq) == \E i \in 1..Len(seq) : seq[i] = c

IsUpper(c) == InSeq(c, Uppers)

IsLower(c) == InSeq(c, Lowers)

CharLower(c) == IF IsUpper(c) THEN Lowers[Pos(c, Uppers)] ELSE c

CharUpper(c) == IF IsLower(c) THEN Uppers[Pos(c, Lowers)] ELSE c

\* str.lower()
StrLower(s) == [i \in 1..Len(s) |-> CharLower(s[i])]

\* needle in s  (substring test)
Contains(s, needle) ==
    \E i \in 1..(Len(s) - Len(needle) + 1) :
        SubSeq(s, i, i + Len(needle) - 1) = needle

\* s.endswith(suffix)
EndsWith(s, suffix) ==
    /\ Len(s) >= Len(suffix)
    /\ SubSeq(s, Len(s) - Len(suffix) + 1, Len(s)) = suffix

RECURSIVE LStrip(_)
LStrip(s) == IF s # <<>> /\ Head(s) \in Whitespace THEN LStrip(Tail(s)) ELSE s

RECURSIVE RStrip(_)
RStrip(s) == IF s # <<>> /\ s[Len(s)] \in Whitespace
             THEN RStrip(SubSeq(s, 1, Len(s) - 1)) ELSE s

\* str.strip()
Strip(s) == RStrip(LStrip(s))

\* str.title(): a cased character is upper-cased when the character before
\* it is uncased (or there is none) and lower-cased otherwise.
Cased(c) == IsUpper(c) \/ IsLower(c)

\* Title with str.swapcase() written for str.title().
SwapCase(s) ==
    [i \in 1..Len(s) |->
        IF IsUpper(s[i]) THEN CharLower(s[i]) ELSE CharUpper(s[i])]

Title(s) ==
    [i \in 1..Len(s) |->
        IF ~Cased(s[i]) THEN s[i]
        ELSE IF i > 1 /\ Cased(s[i-1]) THEN CharLower(s[i])
        ELSE CharUpper(s[i])]

\* re.sub(r'\s+', ' ', x): every maximal run of whitespace becomes one space.
RECURSIVE CollapseWs(_)
CollapseWs(s) ==
    IF s = <<>> THEN <<>>
    ELSE IF Head(s) \in Whitespace
         THEN <<" ">> \o CollapseWs(LStrip(Tail(s)))
         ELSE <<Head(s)>> \o CollapseWs(Tail(s))

\* Python's order on str: by code point, a proper prefix first.
RECURSIVE StrLess(_, _)
StrLess(a, b) ==
    IF b = <<>> THEN FALSE
    ELSE IF a = <<>> THEN TRUE
    ELSE IF Head(a) = Head(b) THEN StrLess(Tail(a), Tail(b))
    ELSE Pos(Head(a), CodePoints) < Pos(Head(b), CodePoints)

(***************************************************************************)
(* Cells.                                                                  *)
(***************************************************************************)
NaN == [k |-> "null"]

Num(i) == [k |-> "num", x2 |-> 2 * i]

Str(t) == [k |-> "str", s |-> t]

Timestamp(y, m, d) == [k |-> "date", d |-> <<y, m, d>>]

\* pd.isnull(x)
IsNull(c) == c.k = "null"

\* isinstance(x, str)
IsStr(c) == c.k = "str"

\* The order mode() sorts its result by (cells of one kind).
CellLess(a, b) ==
    CASE a.k = "str"  -> StrLess(a.s, b.s)
      [] a.k = "num"  -> a.x2 < b.x2
      [] a.k = "date" -> \/ a.d[1] < b.d[1]
                         \/ a.d[1] = b.d[1] /\ a.d[2] < b.d[2]
                         \/ a.d[1] = b.d[1] /\ a.d[2] = b.d[2] /\ a.d[3] < b.d[3]

(***************************************************************************)
(* pd.to_datetime(..., errors='coerce') on one value.  The strings of the  *)
(* model are ISO dates "YYYY-MM-DD" or no dates at all.                    *)
(***************************************************************************)
IsDigit(c) == InSeq(c, Digits)

DigitVal(c) == Pos(c, Digits) - 1

DaysIn(y, m) ==
    IF m \in {4, 6, 9, 11} THEN 30
    ELSE IF m # 2 THEN 31
    ELSE IF (y % 4 = 0 /\ y % 100 # 0) \/ y % 400 = 0 THEN 29
    ELSE 28

IsIsoShape(s) ==
    /\ Len(s) = 10
    /\ s[5] = "-" /\ s[8] = "-"
    /\ \A i \in {1, 2, 3, 4, 6, 7, 9, 10} : IsDigit(s[i])

ToDatetime(c) ==
    CASE c.k = "null" -> NaN
      [] c.k = "date" -> c
      [] c.k = "str"  ->
            IF ~IsIsoShape(c.s) THEN NaN
            ELSE LET y == 1000 * DigitVal(c.s[1]) + 100 * DigitVal(c.s[2])
                          + 10 * DigitVal(c.s[3]) + DigitVal(c.s[4])
                     m == 10 * DigitVal(c.s[6]) + DigitVal(c.s[7])
                     d == 10 * DigitVal(c.s[9]) + DigitVal(c.s[10])
                 IN IF m \in 1..12 /\ d >= 1 /\ d <= DaysIn(y, m)
                    THEN Timestamp(y, m, d) ELSE NaN

(***************************************************************************)
(* The table read by pd.read_csv in clean_all_datasets: the columns of the *)
(* tickets and financials files the cleaning rules look at.                *)
(***************************************************************************)
Ticket_ID == "Ticket_ID"

Total_cost == "Total_cost"

Budget_vs_Actual == "Budget_vs_Actual"

Status == "Status"

Date_reported == "Date_reported"

Cleaner_ID == "Cleaner_ID"

\* A column name no table of the model has.
Staff_assigned == "Staff_assigned"

\* The characters of each column name.
Spelling ==
    (Ticket_ID :> <<"T","i","c","k","e","t","_","I","D">>)
    @@ (Total_cost :> <<"T","o","t","a","l","_","c","o","s","t">>)
    @@ (Budget_vs_Actual :>
            <<"B","u","d","g","e","t","_","v","s","_","A","c","t","u","a","l">>)
    @@ (Status :> <<"S","t","a","t","u","s">>)
    @@ (Date_reported :> <<"D","a","t","e","_","r","e","p","o","r","t","e","d">>)
    @@ (Cleaner_ID :> <<"C","l","e","a","n","e","r","_","I","D">>)
    @@ (Staff_assigned :> <<"S","t","a","f","f","_","a","s","s","i","g","n","e","d">>)

Columns == <<Ticket_ID, Total_cost, Budget_vs_Actual, Status, Date_reported>>

Range(seq) == {seq[i] : i \in 1..Len(seq)}

MkRow(id, cost, budget, status, date) ==
    (Ticket_ID :> id) @@ (Total_cost :> cost) @@ (Budget_vs_Actual :> budget)
        @@ (Status :> status) @@ (Date_reported :> date)

T1 == Str(<<"T","1">>)

OpenPadded == Str(<<" ","o","p","e","n"," ">>)

OpenLower == Str(<<"o","p","e","n">>)

OpenTitle == Str(<<"O","p","e","n">>)

OnHold == Str(<<"o","n"," ","\t","h","o","l","d">>)

Jan5 == Str(<<"2","0","2","4","-","0","1","-","0","5">>)

NotADate == Str(<<"n","o","t","-","a","-","d","a","t","e">>)

\* The rows a table of the model is made of (a row may occur several times).
RowPool ==
    { MkRow(T1,  Num(-5), Num(4),  OpenPadded, Jan5),
      MkRow(T1,  NaN,     Num(7),  OnHold,     NotADate),
      MkRow(NaN, Num(10), Num(-3), NaN,        NaN) }

(***************************************************************************)
(* The frame: column names in order, a dtype per column, the index labels  *)
(* and the rows, each a function from column name to cell.                 *)
(***************************************************************************)
NRows(d) == Len(d.data)

\* df[col] as a sequence of cells
Col(d, c) == [i \in 1..NRows(d) |-> d.data[i][c]]

\* df[col].isnull().sum()
NullCount(d, c) == Cardinality({i \in 1..NRows(d) : IsNull(d.data[i][c])})

\* The non-missing cells of a column, in row order.
Present(d, c) == SelectSeq(Col(d, c), LAMBDA x : ~IsNull(x))

\* Column c overwritten by cells, row by row, the dtype kept.
SetCol(d, c, cells) ==
    [d EXCEPT !.data = [i \in 1..NRows(d) |-> [d.data[i] EXCEPT ![c] = cells[i]]]]

\* The row positions of the frame, in order.
Positions(d) == [i \in 1..NRows(d) |-> i]

\* df[mask]: the rows at the positions pos (those the mask selects, in
\* order), labels kept.
Take(d, pos) ==
    [d EXCEPT !.data  = [j \in 1..Len(pos) |-> d.data[pos[j]]],
              !.index = [j \in 1..Len(pos) |-> d.index[pos[j]]]]

\* The dtype pandas gives a column it reads: object for a column without
\* rows, float64 for numbers with gaps (and for a column of gaps only),
\* int64 for numbers, object for anything else.
InferDtype(cells) ==
    IF cells = <<>> THEN "object"
    ELSE IF \A i \in 1..Len(cells) : cells[i].k \in {"null", "num"}
         THEN IF \E i \in 1..Len(cells) : IsNull(cells[i])
              THEN "float64" ELSE "int64"
         ELSE "object"

\* df[col] = df[col].apply(...) on an object column, cells being what the
\* function returned: Series.apply infers the dtype of the results, so a
\* column of gaps only comes back float64.
apply(d, c, cells) ==
    [SetCol(d, c, cells) EXCEPT !.dtypes[c] = InferDtype(cells)]

Frame(rows) ==
    [columns |-> Columns,
     dtypes  |-> [c \in Range(Columns) |->
                    InferDtype([i \in 1..Len(rows) |-> rows[i][c]])],
     index   |-> [i \in 1..Len(rows) |-> i - 1],
     data    |-> rows]

IsNumeric(d, c) == d.dtypes[c] \in {"int64", "float64"}

IsObject(d, c) == d.dtypes[c] = "object"

\* select_dtypes(...).columns: the columns of a kind, in column order.
ObjectColumns(d) == SelectSeq(d.columns, LAMBDA c : IsObject(d, c))

NumericColumns(d) == SelectSeq(d.columns, LAMBDA c : IsNumeric(d, c))

(***************************************************************************)
(* DataCleaner.__init__ and log.                                           *)
(***************************************************************************)
Entry(msg, n, c) == [msg |-> msg, n |-> n, col |-> c]

NoCol == ""

Init ==
    /\ \E n \in 0..MaxRows : \E rows \in [1..n -> RowPool] : df = Frame(rows)
    /\ cleaning_report = <<>>
    /\ raised = "none"
    /\ calls = <<>>
    /\ before = [df |-> df, report |-> <<>>]

\* A call is made on a cleaner no earlier call of which has raised.
Callable == raised = "none" /\ Len(calls) < MaxCalls

\* What one call of an operation leaves: res is the frame, the report and
\* the exception (if any) the method body ends with.
Returns(op, arg, res) ==
    /\ df' = res.df
    /\ cleaning_report' = res.report
    /\ raised' = res.raised
    /\ calls' = Append(calls, [op |-> op, arg |-> arg])
    /\ before' = [df |-> df, report |-> cleaning_report]

Done(d, report) == [df |-> d, report |-> report, raised |-> "none"]

(***************************************************************************)
(* remove_duplicates                                                       *)
(***************************************************************************)
\* The key drop_duplicates compares rows by: all columns when subset is None.
KeyColumns(d, subset) == IF subset = "None" THEN Range(d.columns) ELSE Range(subset)

SameKey(d, subset, i, j) ==
    \A c \in KeyColumns(d, subset) : d.data[i][c] = d.data[j][c]

\* drop_duplicates with keep='last' written for the default keep='first'.
drop_duplicates_keep_last(d, subset) ==
    Take(d, SelectSeq(Positions(d),
                      LAMBDA i : ~\E j \in (i + 1)..NRows(d) : SameKey(d, subset, i, j)))

\* DataFrame.drop_duplicates(subset=subset, inplace=True), keep='first'
drop_duplicates(d, subset) ==
    Take(d, SelectSeq(Positions(d),
                      LAMBDA i : ~\E j \in 1..(i - 1) : SameKey(d, subset, j, i)))

\* RemoveDuplicates with the test "removed > 0" left out.
RemoveDuplicatesAlwaysLogs(d, report, subset) ==
    LET out == drop_duplicates(d, subset)
    IN Done(out, Append(report,
                        Entry("Removed duplicate rows", NRows(d) - NRows(out), NoCol)))

RemoveDuplicates(d, report, subset) ==
    LET initial_count == NRows(d)
        out == drop_duplicates(d, subset)
        removed == initial_count - NRows(out)
    IN Done(out, IF removed > 0
                 THEN Append(report, Entry("Removed duplicate rows", removed, NoCol))
                 ELSE report)

SubsetArgs == {"None", <<Ticket_ID>>}

remove_duplicates ==
    \E subset \in SubsetArgs :
        Callable /\ Returns("remove_duplicates", subset,
             RemoveDuplicates(df, cleaning_report, subset))

(***************************************************************************)
(* handle_missing_values                                                   *)
(***************************************************************************)
\* df.isnull().sum().sum()
MissingCount(d) ==
    LET RECURSIVE Sum(_)
        Sum(i) == IF i = 0 THEN 0 ELSE NullCount(d, d.columns[i]) + Sum(i - 1)
    IN Sum(Len(d.columns))

RECURSIVE SortInts(_)
SortInts(s) ==
    IF s = <<>> THEN <<>>
    ELSE LET i == CHOOSE i \in 1..Len(s) : \A j \in 1..Len(s) : s[i] <= s[j]
         IN <<s[i]>> \o SortInts(SubSeq(s, 1, i - 1) \o SubSeq(s, i + 1, Len(s)))

\* Series.median(): over the present values, NaN when there is none.  The
\* present values of a column with a gap are integers (x2 even), so the
\* mean of the two middle ones is exact.
Median(d, c) ==
    LET p == Present(d, c)
        s == SortInts([i \in 1..Len(p) |-> p[i].x2])
        n == Len(s)
    IN IF n = 0 THEN NaN
       ELSE IF n % 2 = 1 THEN [k |-> "num", x2 |-> s[(n + 1) \div 2]]
       ELSE [k |-> "num", x2 |-> (s[n \div 2] + s[n \div 2 + 1]) \div 2]

Occurrences(cells, v) == Cardinality({i \in 1..Len(cells) : cells[i] = v})

\* Series.mode(): the most frequent present values, sorted; empty when the
\* column has no present value.
Mode(d, c) ==
    LET p == Present(d, c)
        best == {v \in Range(p) : \A w \in Range(p) :
                    Occurrences(p, v) >= Occurrences(p, w)}
        RECURSIVE Sorted(_)
        Sorted(S) == IF S = {} THEN <<>>
                     ELSE LET m == CHOOSE m \in S : \A o \in S \ {m} : CellLess(m, o)
                          IN <<m>> \o Sorted(S \ {m})
    IN Sorted(best)

\* fillna with limit=1: only the first gap of the column is filled.
fillna_limit1(d, c, value) ==
    [d EXCEPT !.data = [i \in 1..NRows(d) |->
        [d.data[i] EXCEPT ![c] =
            IF IsNull(@) /\ \A j \in 1..(i - 1) : ~IsNull(d.data[j][c])
            THEN value ELSE @]]]

\* df[col].fillna(value, inplace=True)
fillna(d, c, value) ==
    SetCol(d, c, [i \in 1..NRows(d) |->
                    IF IsNull(d.data[i][c]) THEN value ELSE d.data[i][c]])

\* The body of the loop over df.columns for strategy 'auto', from column i on.
RECURSIVE AutoFill(_, _, _)
AutoFill(d, report, i) ==
    IF i > Len(d.columns) THEN Done(d, report)
    ELSE LET c == d.columns[i]
         IN IF NullCount(d, c) > 0
            THEN IF d.dtypes[c] \in {"int64", "float64"}
                 THEN AutoFill(fillna(d, c, Median(d, c)),
                               Append(report, Entry("Filled (numeric) with median", 0, c)),
                               i + 1)
                 ELSE LET mode_val == Mode(d, c)
                      IN IF Len(mode_val) > 0
                         THEN AutoFill(fillna(d, c, mode_val[1]),
                                       Append(report,
                                              Entry("Filled (categorical) with mode", 0, c)),
                                       i + 1)
                         ELSE AutoFill(d, report, i + 1)
            ELSE AutoFill(d, report, i + 1)

\* dropna with axis=1: the columns holding a gap are dropped, not the rows.
dropna_columns(d) ==
    LET keep == SelectSeq(d.columns, LAMBDA c : NullCount(d, c) = 0)
    IN [d EXCEPT !.columns = keep,
                 !.dtypes  = [c \in Range(keep) |-> d.dtypes[c]],
                 !.data    = [i \in 1..NRows(d) |->
                                [c \in Range(keep) |-> d.data[i][c]]]]

\* DataFrame.dropna(inplace=True)
dropna(d) ==
    Take(d, SelectSeq(Positions(d),
                      LAMBDA i : \A c \in Range(d.columns) : ~IsNull(d.data[i][c])))

HandleMissingValues(d, report, strategy) ==
    LET missing_count == MissingCount(d)
    IN IF missing_count = 0
       THEN Done(d, Append(report, Entry("No missing values found", 0, NoCol)))
       ELSE LET r == Append(report, Entry("Found missing values", missing_count, NoCol))
            IN IF strategy = "auto" THEN AutoFill(d, r, 1)
               ELSE IF strategy = "drop"
                    THEN Done(dropna(d),
                              Append(r, Entry("Dropped rows with missing values", 0, NoCol)))
               ELSE Done(d, r)

Strategies == {"auto", "drop", "fill_mean"}

handle_missing_values ==
    \E strategy \in Strategies :
        Callable /\ Returns("handle_missing_values", strategy,
             HandleMissingValues(df, cleaning_report, strategy))

(***************************************************************************)
(* standardize_text_columns                                                *)
(***************************************************************************)
\* Series.nunique(): the number of distinct present values.
NUnique(d, c) == Cardinality(Range(Present(d, c)))

StripCell(x) == IF IsStr(x) THEN Str(Strip(x.s)) ELSE x

TitleCell(x) == IF IsStr(x) THEN Str(Title(x.s)) ELSE x

\* The loop over the object columns cols, from position i on.  The ratio
\* nunique() / len(df) divides two Python ints: with no rows it raises
\* ZeroDivisionError, after the column's strip has been assigned.
RECURSIVE StandardizeText(_, _, _, _)
StandardizeText(d, report, cols, i) ==
    IF i > Len(cols) THEN Done(d, report)
    ELSE LET c == cols[i]
             stripped == apply(d, c, [j \in 1..NRows(d) |-> StripCell(d.data[j][c])])
         IN IF NRows(stripped) = 0
            THEN [df |-> stripped, report |-> report, raised |-> "ZeroDivisionError"]
            ELSE IF 2 * NUnique(stripped, c) < NRows(stripped)
                 THEN StandardizeText(
                          apply(stripped, c,
                                [j \in 1..NRows(d) |-> TitleCell(stripped.data[j][c])]),
                                      Append(report, Entry("Standardized text", 0, c)),
                                      cols, i + 1)
                 ELSE StandardizeText(stripped, report, cols, i + 1)

standardize_text_columns ==
    Callable /\ Returns("standardize_text_columns", "None",
         StandardizeText(df, cleaning_report, ObjectColumns(df), 1))

(***************************************************************************)
(* clean_numeric_columns                                                   *)
(***************************************************************************)
Keywords == { <<"i","d">>, <<"c","o","s","t">>, <<"t","i","m","e">>,
              <<"h","o","u","r","s">>, <<"m","i","n","s">>, <<"s","i","z","e">>,
              <<"f","l","o","o","r">> }

\* any(keyword in col.lower() for keyword in [...])
HasKeyword(c) == \E keyword \in Keywords : Contains(StrLower(Spelling[c]), keyword)

\* (df[col] < 0).sum(): a comparison with NaN is False.
NegativeCount(d, c) ==
    Cardinality({i \in 1..NRows(d) : ~IsNull(d.data[i][c]) /\ d.data[i][c].x2 < 0})

\* df[df[col] >= 0]: a comparison with NaN is False.
NonNegativeRows(d, c) ==
    Take(d, SelectSeq(Positions(d),
                      LAMBDA i : ~IsNull(d.data[i][c]) /\ d.data[i][c].x2 >= 0))

\* Four times Series.quantile(k/4) of the x2 values (linear interpolation
\* between the two nearest order statistics); s is sorted and not empty.
Quantile4(s, k) ==
    LET h  == (Len(s) - 1) * k
        lo == h \div 4 + 1
        r  == h % 4
    IN IF r = 0 THEN 4 * s[lo] ELSE 4 * s[lo] + (s[lo + 1] - s[lo]) * r

\* ((df[col] < lower_bound) | (df[col] > upper_bound)).sum() with the bounds
\* Q1 - 3*IQR and Q3 + 3*IQR; the quantiles of a column without a present
\* value are NaN and nothing compares beyond them.
Outliers(d, c) ==
    LET p == Present(d, c)
        s == SortInts([i \in 1..Len(p) |-> p[i].x2])
    IN IF s = <<>> THEN 0
       ELSE LET Q1 == Quantile4(s, 1)
                Q3 == Quantile4(s, 3)
                IQR == Q3 - Q1
                lower_bound == Q1 - 3 * IQR
                upper_bound == Q3 + 3 * IQR
            IN Cardinality({i \in 1..Len(s) :
                    4 * s[i] < lower_bound \/ 4 * s[i] > upper_bound})

\* outliers > 0 and outliers < len(df) * 0.05
FewOutliers(outliers, n) == outliers > 0 /\ 20 * outliers < n

\* The loop over numeric_cols, from position i on.
RECURSIVE CleanNumeric(_, _, _, _)
CleanNumeric(d, report, numeric_cols, i) ==
    IF i > Len(numeric_cols) THEN Done(d, report)
    ELSE LET c == numeric_cols[i]
             negative_count == NegativeCount(d, c)
             drop == HasKeyword(c) /\ negative_count > 0
             d1 == IF drop THEN NonNegativeRows(d, c) ELSE d
             r1 == IF drop
                   THEN Append(report,
                               Entry("Removed rows with negative values", negative_count, c))
                   ELSE report
             outliers == Outliers(d1, c)
             r2 == IF FewOutliers(outliers, NRows(d1))
                   THEN Append(r1, Entry("Found extreme outliers", outliers, c))
                   ELSE r1
         IN CleanNumeric(d1, r2, numeric_cols, i + 1)

clean_numeric_columns ==
    Callable /\ Returns("clean_numeric_columns", "None",
         CleanNumeric(df, cleaning_report, NumericColumns(df), 1))

(***************************************************************************)
(* parse_dates                                                             *)
(***************************************************************************)
\* [col for col in df.columns if 'date' in col.lower()]
AutoDateColumns(d) ==
    SelectSeq(d.columns, LAMBDA c : Contains(StrLower(Spelling[c]), <<"d","a","t","e">>))

\* df[col] = pd.to_datetime(df[col], errors='coerce')
to_datetime(d, c) ==
    [SetCol(d, c, [i \in 1..NRows(d) |-> ToDatetime(d.data[i][c])])
        EXCEPT !.dtypes[c] = "datetime64[ns]"]

\* The loop over date_columns, from position i on.  With errors='coerce'
\* to_datetime raises on no column of strings, gaps or timestamps, so the
\* except branch is never taken on the columns of the model.
RECURSIVE ParseDates(_, _, _, _)
ParseDates(d, report, date_columns, i) ==
    IF i > Len(date_columns) THEN Done(d, report)
    ELSE LET c == date_columns[i]
         IN IF c \in Range(d.columns)
            THEN LET d1 == to_datetime(d, c)
                     invalid_dates == NullCount(d1, c)
                 IN ParseDates(d1,
                        Append(report,
                               IF invalid_dates > 0
                               THEN Entry("Found invalid dates", invalid_dates, c)
                               ELSE Entry("Parsed as datetime", 0, c)),
                        date_columns, i + 1)
            ELSE ParseDates(d, report, date_columns, i + 1)

DateArgs == {"None", <<Staff_assigned, Date_reported>>}

parse_dates ==
    \E date_columns \in DateArgs :
        Callable /\ Returns("parse_dates", date_columns,
             ParseDates(df, cleaning_report,
                        IF date_columns = "None" THEN AutoDateColumns(df)
                        ELSE date_columns, 1))

(***************************************************************************)
(* validate_ids                                                            *)
(***************************************************************************)
\* [col for col in df.columns
\*      if 'id' in col.lower() and 'assigned' not in col.lower()]
AutoIdColumns(d) ==
    SelectSeq(d.columns,
              LAMBDA c : /\ Contains(StrLower(Spelling[c]), <<"i","d">>)
                         /\ ~Contains(StrLower(Spelling[c]),
                                      <<"a","s","s","i","g","n","e","d">>))

\* col.endswith('_ID') or col == 'Ticket_ID' or col == 'Cleaner_ID'
IsPrimaryId(c) ==
    EndsWith(Spelling[c], <<"_","I","D">>) \/ c = Ticket_ID \/ c = Cleaner_ID

\* duplicated(keep=False): every row whose value another row has.
DuplicatedCountKeepFalse(d, c) ==
    Cardinality({i \in 1..NRows(d) :
        \E j \in 1..NRows(d) : j # i /\ d.data[j][c] = d.data[i][c]})

\* df[col].duplicated().sum(): the rows whose value an earlier row has.
DuplicatedCount(d, c) ==
    Cardinality({i \in 1..NRows(d) : \E j \in 1..(i - 1) : d.data[j][c] = d.data[i][c]})

\* The loop over id_columns, from position i on.
RECURSIVE ValidateIds(_, _, _, _)
ValidateIds(d, report, id_columns, i) ==
    IF i > Len(id_columns) THEN Done(d, report)
    ELSE LET c == id_columns[i]
         IN IF c \in Range(d.columns)
            THEN LET duplicates == IF IsPrimaryId(c) THEN DuplicatedCount(d, c) ELSE 0
                     r1 == IF duplicates > 0
                           THEN Append(report,
                                       Entry("WARNING: duplicate IDs", duplicates, c))
                           ELSE report
                     missing == NullCount(d, c)
                     r2 == IF missing > 0
                           THEN Append(r1, Entry("WARNING: missing values", missing, c))
                           ELSE r1
                 IN ValidateIds(d, r2, id_columns, i + 1)
            ELSE ValidateIds(d, report, id_columns, i + 1)

IdArgs == {"None", <<Ticket_ID, Status, Staff_assigned>>}

validate_ids ==
    \E id_columns \in IdArgs :
        Callable /\ Returns("validate_ids", id_columns,
             ValidateIds(df, cleaning_report,
                         IF id_columns = "None" THEN AutoIdColumns(df)
                         ELSE id_columns, 1))

(***************************************************************************)
(* standardize_categories                                                  *)
(***************************************************************************)
\* df[col].replace(mapping): a cell that is a key becomes the key's value.
replace(d, c, mapping) ==
    SetCol(d, c, [i \in 1..NRows(d) |->
                    IF d.data[i][c] \in DOMAIN mapping
                    THEN mapping[d.data[i][c]] ELSE d.data[i][c]])

\* The loop over category_mapping.items(), from position i on; an item is
\* <<column, mapping>>.
RECURSIVE StandardizeCategories(_, _, _, _)
StandardizeCategories(d, report, items, i) ==
    IF i > Len(items) THEN Done(d, report)
    ELSE LET c == items[i][1]
         IN IF c \in Range(d.columns)
            THEN StandardizeCategories(replace(d, c, items[i][2]),
                     Append(report, Entry("Applied category mapping", 0, c)),
                     items, i + 1)
            ELSE StandardizeCategories(d, report, items, i + 1)

StatusMapping == (OpenPadded :> OpenTitle) @@ (OpenLower :> OpenTitle)

\* The empty item list stands for None and {}: both are falsy and the loop
\* is not entered.
MappingArgs == { <<>>,
                 << <<Status, StatusMapping>>, <<Staff_assigned, StatusMapping>> >> }

standardize_categories ==
    \E category_mapping \in MappingArgs :
        Callable /\ Returns("standardize_categories", category_mapping,
             StandardizeCategories(df, cleaning_report, category_mapping, 1))

(***************************************************************************)
(* remove_extra_whitespace and reset_index                                 *)
(***************************************************************************)
CollapseCell(x) == IF IsStr(x) THEN Str(CollapseWs(x.s)) ELSE x

RECURSIVE RemoveExtraWhitespace(_, _, _)
RemoveExtraWhitespace(d, cols, i) ==
    IF i > Len(cols) THEN d
    ELSE RemoveExtraWhitespace(
             apply(d, cols[i], [j \in 1..NRows(d) |-> CollapseCell(d.data[j][cols[i]])]),
             cols, i + 1)

remove_extra_whitespace ==
    Callable /\ Returns("remove_extra_whitespace", "None",
         Done(RemoveExtraWhitespace(df, ObjectColumns(df), 1), cleaning_report))

\* reset_index without inplace=True: the frame keeps its index.
ResetIndexNotInPlace(d) == d

\* DataFrame.reset_index(drop=True, inplace=True)
ResetIndex(d) == [d EXCEPT !.index = [i \in 1..NRows(d) |-> i - 1]]

reset_index ==
    Callable /\ Returns("reset_index", "None", Done(ResetIndex(df), cleaning_report))

Next ==
    \/ remove_duplicates
    \/ handle_missing_values
    \/ standardize_text_columns
    \/ clean_numeric_columns
    \/ parse_dates
    \/ validate_ids
    \/ standardize_categories
    \/ remove_extra_whitespace
    \/ reset_index

Spec == Init /\ [][Next]_vars

(***************************************************************************)
(* What the properties below speak about: the last call, the table and the *)
(* report before it (before) and the entries it logged.                    *)
(***************************************************************************)
LastOp == IF calls = <<>> THEN "init" ELSE calls[Len(calls)].op

LastArg == IF calls = <<>> THEN "None" ELSE calls[Len(calls)].arg

NewEntries == SubSeq(cleaning_report, Len(before.report) + 1, Len(cleaning_report))

LogOnlyGrew ==
    /\ Len(before.report) <= Len(cleaning_report)
    /\ SubSeq(cleaning_report, 1, Len(before.report)) = before.report

SameRows == df.data = before.df.data /\ df.index = before.df.index

\* The position in frame d of the row labelled l (labels are distinct).
PosOf(d, l) == CHOOSE p \in 1..NRows(d) : d.index[p] = l

\* v is a median of the numbers p: at most half of them lie below it, at
\* most half above, and it is one of them or the mean of two of them.
IsMedianOf(v, p) ==
    /\ v.k = "num"
    /\ 2 * Cardinality({i \in 1..Len(p) : p[i].x2 < v.x2}) <= Len(p)
    /\ 2 * Cardinality({i \in 1..Len(p) : p[i].x2 > v.x2}) <= Len(p)
    /\ \E i, j \in 1..Len(p) : 2 * v.x2 = p[i].x2 + p[j].x2

\* v is a value of p that no other value of p outnumbers.
IsMostFrequentOf(v, p) ==
    /\ v \in Range(p)
    /\ \A w \in Range(p) :
          Cardinality({i \in 1..Len(p) : p[i] = v})
              >= Cardinality({i \in 1..Len(p) : p[i] = w})

\* Row i holds a negative number in a numeric column whose name contains a
\* keyword (of the columns of the table: Ticket_ID and Total_cost).
HoldsNegative(d, i) ==
    \E c \in Range(d.columns) :
        /\ d.dtypes[c] \in {"int64", "float64"}
        /\ c \in {Ticket_ID, Total_cost}
        /\ ~IsNull(d.data[i][c])
        /\ d.data[i][c].x2 < 0

\* The sum of the counts of some log entries.
RECURSIVE SumN(_)
SumN(entries) == IF entries = <<>> THEN 0 ELSE Head(entries).n + SumN(Tail(entries))

\* The columns of the table the last parse_dates call was given.
ListedDateColumns ==
    IF LastArg = "None" THEN {Date_reported} ELSE Range(LastArg) \cap Range(Columns)

\* The last two calls were both standardize_text_columns.
TwiceStandardized ==
    /\ Len(calls) >= 2
    /\ calls[Len(calls)].op = "standardize_text_columns"
    /\ calls[Len(calls) - 1].op = "standardize_text_columns"

\* The columns the last remove_duplicates call compared rows by.
Compared == IF LastArg = "None" THEN Range(Columns) ELSE Range(LastArg)

\* Rows r and s hold the same values in the compared columns.
Agree(r, s) == \A c \in Compared : r[c] = s[c]

(***************************************************************************)
(* C1.  After any sequence of operations the column names and their order  *)
(* are those at construction, every row has exactly these columns, and the *)
(* row count is at most the row count before the last operation.           *)
(***************************************************************************)
C1_SchemaFixedRowsNeverAdded ==
    /\ df.columns = Columns
    /\ DOMAIN df.dtypes = Range(Columns)
    /\ \A i \in 1..NRows(df) : DOMAIN df.data[i] = Range(Columns)
    /\ Len(df.index) = NRows(df)
    /\ NRows(df) <= NRows(before.df)

C1_Witness ==
    /\ Len(calls) >= 2
    /\ NRows(df) > 0
    /\ NRows(df) < NRows(before.df)

(***************************************************************************)
(* C2 as stated: every call that returns makes the report strictly longer. *)
(***************************************************************************)
C2_EveryCallLogs ==
    (calls # <<>> /\ raised = "none") => Len(cleaning_report) > Len(before.report)

(***************************************************************************)
(* C2 amended.  No call removes or rewrites an earlier entry;              *)
(* handle_missing_values logs at least one entry on every call;            *)
(* remove_duplicates logs exactly one entry when it removed a row and      *)
(* nothing otherwise; remove_extra_whitespace and reset_index log nothing. *)
(***************************************************************************)
C2_LogsOnlyWhereTheCodeLogs ==
    /\ LogOnlyGrew
    /\ LastOp = "handle_missing_values" => Len(NewEntries) >= 1
    /\ LastOp = "remove_duplicates" =>
          IF NRows(df) < NRows(before.df)
          THEN /\ Len(NewEntries) = 1
               /\ NewEntries[1].msg = "Removed duplicate rows"
               /\ NewEntries[1].n = NRows(before.df) - NRows(df)
          ELSE NewEntries = <<>>
    /\ LastOp \in {"remove_extra_whitespace", "reset_index"} => NewEntries = <<>>

C2_Witness ==
    /\ LastOp = "remove_duplicates"
    /\ NRows(before.df) >= 2
    /\ NRows(df) = NRows(before.df)
    /\ cleaning_report = before.report

(***************************************************************************)
(* C3 as stated: no operation raises, whatever the table (zero rows and    *)
(* all-missing columns included).                                          *)
(***************************************************************************)
C3_NoOperationRaises == raised = "none"

(***************************************************************************)
(* C4.  After handle_missing_values('auto') no row is added or removed,    *)
(* every cell that was present keeps its value, a column that was entirely *)
(* missing is unchanged, and in every other column each gap holds the      *)
(* median of the column's present values (numeric column) or one of its    *)
(* most frequent present values (any other column).                        *)
(***************************************************************************)
C4_AutoFillsEveryGap ==
    (LastOp = "handle_missing_values" /\ LastArg = "auto") =>
        /\ NRows(df) = NRows(before.df)
        /\ df.index = before.df.index
        /\ \A c \in Range(Columns) :
              LET old == Col(before.df, c)
                  new == Col(df, c)
                  p   == Present(before.df, c)
              IN /\ \A i \in 1..Len(old) : ~IsNull(old[i]) => new[i] = old[i]
                 /\ p = <<>> => new = old
                 /\ p # <<>> =>
                       \A i \in 1..Len(old) :
                          IsNull(old[i]) =>
                             IF before.df.dtypes[c] \in {"int64", "float64"}
                             THEN IsMedianOf(new[i], p)
                             ELSE IsMostFrequentOf(new[i], p)

C4_Witness ==
    /\ LastOp = "handle_missing_values" /\ LastArg = "auto"
    /\ NullCount(before.df, Total_cost) = 1
    /\ Len(Present(before.df, Total_cost)) = 2
    /\ NullCount(before.df, Status) = 2
    /\ Len(Present(before.df, Status)) = 1
    /\ NullCount(df, Total_cost) = 0
    /\ NullCount(df, Status) = 0

(***************************************************************************)
(* C5 as stated: clean_numeric_columns removes exactly the rows holding a  *)
(* negative value in a numeric column whose name has one of the keywords   *)
(* (a row with a missing value there stays), and the counts it logs add up *)
(* to the number of rows removed.                                          *)
(***************************************************************************)
C5_RemovesExactlyNegativeRows ==
    LastOp = "clean_numeric_columns" =>
        LET b == before.df
            kept == SelectSeq([i \in 1..NRows(b) |-> i], LAMBDA i : ~HoldsNegative(b, i))
        IN /\ df.data = [j \in 1..Len(kept) |-> b.data[kept[j]]]
           /\ df.index = [j \in 1..Len(kept) |-> b.index[kept[j]]]
           /\ SumN(SelectSeq(NewEntries,
                             LAMBDA e : e.msg = "Removed rows with negative values"))
                 = NRows(b) - NRows(df)

(***************************************************************************)
(* C6 as stated: parse_dates replaces every value of a listed column of    *)
(* the table by its date, or by missing when it does not parse, removes no *)
(* row, and the N of "Found N invalid dates" counts the values that were   *)
(* present and did not parse; a listed name that is no column changes      *)
(* neither the table nor the log.                                          *)
(***************************************************************************)
C6_InvalidCountsUnparseableOnly ==
    LastOp = "parse_dates" =>
        /\ NRows(df) = NRows(before.df)
        /\ df.index = before.df.index
        /\ \A c \in Range(Columns) : \A i \in 1..NRows(df) :
              df.data[i][c] = IF c \in ListedDateColumns
                              THEN ToDatetime(before.df.data[i][c])
                              ELSE before.df.data[i][c]
        /\ LogOnlyGrew
        /\ \A k \in 1..Len(NewEntries) :
              LET e == NewEntries[k]
              IN /\ e.col \in ListedDateColumns
                 /\ e.msg = "Found invalid dates" =>
                       e.n = Cardinality({i \in 1..NRows(df) :
                                /\ ~IsNull(before.df.data[i][e.col])
                                /\ IsNull(df.data[i][e.col])})

C8_KeepsFirstOccurrencesInOrder ==
    LastOp = "remove_duplicates" =>
        LET b == before.df
        IN /\ \A i, j \in 1..NRows(df) : i < j => ~Agree(df.data[i], df.data[j])
           /\ \A j \in 1..NRows(df) :
                 \E p \in 1..NRows(b) :
                    /\ b.index[p] = df.index[j]
                    /\ b.data[p] = df.data[j]
                    /\ \A q \in 1..(p - 1) : ~Agree(b.data[q], b.data[p])
           /\ \A p \in 1..NRows(b) : \E j \in 1..NRows(df) : Agree(b.data[p], df.data[j])
           /\ \A i, j \in 1..NRows(df) :
                 i < j => PosOf(b, df.index[i]) < PosOf(b, df.index[j])

C8_Witness ==
    /\ LastOp = "remove_duplicates"
    /\ NRows(before.df) = 3
    /\ NRows(df) = 2
    /\ before.df.data[1] # before.df.data[2]
    /\ Agree(before.df.data[1], before.df.data[3])

(***************************************************************************)
(* C9.  validate_ids leaves the table as it was and only appends warnings; *)
(* a duplicate warning names a column of the table whose name ends with    *)
(* "_ID", and its count is the number of rows whose value an earlier row   *)
(* already has (the rows minus the distinct values).                       *)
(***************************************************************************)
C9_ValidateIdsOnlyWarns ==
    LastOp = "validate_ids" =>
        /\ df = before.df
        /\ raised = "none"
        /\ LogOnlyGrew
        /\ \A k \in 1..Len(NewEntries) :
              LET e == NewEntries[k]
              IN /\ e.msg \in {"WARNING: duplicate IDs", "WARNING: missing values"}
                 /\ e.msg = "WARNING: duplicate IDs" =>
                       /\ e.col = Ticket_ID
                       /\ e.n = NRows(df) - Cardinality(Range(Col(df, e.col)))

C9_Witness ==
    /\ LastOp = "validate_ids"
    /\ LastArg # "None"
    /\ NRows(df) = 3
    /\ df.data[1][Ticket_ID] = T1 /\ df.data[2][Ticket_ID] = T1
    /\ df.data[3][Ticket_ID] = NaN
    /\ df.data[1][Status] = df.data[2][Status]
    /\ NewEntries = << Entry("WARNING: duplicate IDs", 1, Ticket_ID),
                       Entry("WARNING: missing values", 1, Ticket_ID),
                       Entry("WARNING: missing values", 1, Status) >>

(***************************************************************************)
(* C10.  After reset_index the index is exactly 0, 1, ..., n-1 for the     *)
(* current row count n, and the rows are those before the call, in the     *)
(* same order.                                                             *)
(***************************************************************************)
C10_ResetIndexRenumbers ==
    LastOp = "reset_index" =>
        /\ df.index = [i \in 1..NRows(df) |-> i - 1]
        /\ df.data = before.df.data
        /\ df.columns = before.df.columns

C10_Witness ==
    /\ LastOp = "reset_index"
    /\ Len(calls) >= 2
    /\ calls[Len(calls) - 1].op \in
          {"remove_duplicates", "handle_missing_values", "clean_numeric_columns"}
    /\ NRows(df) >= 1
    /\ before.df.index # df.index

=============================================================================
